---- MODULE Spec2Model ----
(***************************************************************************)
(* Model of the buildhub jobs:                                             *)
(*   jobs/buildhub/to_kinto.py   stdin -> queue -> batches -> Kinto        *)
(*   jobs/scrape_archives.py     crawl -> queue -> batches -> Kinto        *)
(*                                                                         *)
(* Both programs run one asyncio event loop (cooperative: a coroutine runs *)
(* from one await to the next without interruption) and a thread pool of   *)
(* NB_THREADS workers that run publish_records.  The loop-side steps are   *)
(* therefore guarded by LoopIdle (the consumer is suspended), the worker   *)
(* steps are not.                                                          *)
(***************************************************************************)
EXTENDS Naturals, Sequences, FiniteSets, TLC

VARIABLES
    prog,        \* which entry point runs: "to_kinto" or "scrape_archives"
    mpc,         \* position of main()
    error,       \* the exception main() ends with ("None" when there is none)
    stdin,       \* to_kinto: the lines read from stdin so far
    cache_file,  \* to_kinto: content of .previous_run.json (NoFile when absent)
    existing,    \* to_kinto: the value of `existing` in main()
    queue,       \* asyncio.Queue: the items waiting in it
    unfinished,  \* asyncio.Queue._unfinished_tasks
    nput,        \* number of queue.put() calls made so far
    cpc,         \* position of consume()
    batch,       \* consume(): the local `batch`
    batch_max,   \* client.server_info()["settings"]["batch_max_requests"]
    tasks,       \* the futures made by loop.run_in_executor, in order
    skipped,     \* queue items consume() dropped as unchanged
    logged,      \* exceptions handed to the loop's exception handler
    crawl,       \* scrape_archives: the coroutines of the crawl
    pub,         \* a call of to_kinto's publish_records and what it gave
    store,       \* the records of the Kinto collection
    lam,         \* lambda_s3_event: main() and the event it was called with
    call,        \* a call of one function on its own and what it gave
    runs         \* scrape_archives run after run: the releases of one product

vars == <<prog, mpc, error, stdin, cache_file, existing, queue,
          unfinished, nput, cpc, batch, batch_max, tasks, skipped, logged,
          crawl, pub, store, lam, call, runs>>

(* The variables that the queue, its consumer and the crawl leave alone *)
aside == <<store, lam, call, runs>>

----------------------------------------------------------------------------
(* Bounds of the model *)

MaxLines == 2      \* lines on stdin
MaxBatch == 2      \* largest batch_max_requests the server advertises
NumProducts == 2   \* products of PRODUCTS that are crawled

(* Program constants *)

NB_THREADS == 3

None == "None"
(* os.path.exists(cache_file) is false *)
NoFile == [exists |-> FALSE, records |-> <<>>]
File(records) == [exists |-> TRUE, records |-> records]

(* done = object(): the completion marker *)
done == [done |-> TRUE]

----------------------------------------------------------------------------
(* Records.  A dict is a function from its keys to values. *)

Get(d, k) == IF k \in DOMAIN d THEN d[k] ELSE None

Without(d, omit) == [k \in (DOMAIN d) \ omit |-> d[k]]

(* Records as the server returns them *)
RA1 == [id |-> "a", title |-> "t1", last_modified |-> 1, schema |-> 1]
RA2 == [id |-> "a", title |-> "t2", last_modified |-> 2, schema |-> 2]

(* What the server can hold when a run starts *)
ServerRecords == {<<>>, <<RA2>>}

(* "data" of the records read from stdin *)
DA1 == [id |-> "a", title |-> "t1"]
DA2 == [id |-> "a", title |-> "t2", last_modified |-> 1]
DNoId == [title |-> "t1"]

(* The lines stdin can hold, json.loads applied *)
Lines == { [data |-> DA1], [data |-> DA2],
           [permission |-> "p"], [permissions |-> "p"] }

----------------------------------------------------------------------------
(* to_kinto.py: fetch_existing *)

MaxOf(S) == CHOOSE x \in S : \A y \in S : y <= x

(* {r["id"]: r for r in rs}, then list(values()): a dict keeps the place of
   the first insertion of a key and the value of the last one. *)
MergeById(rs) ==
    LET first(i) == \A j \in 1..(i - 1) : rs[j].id # rs[i].id
        last(i) == CHOOSE j \in i..Len(rs) :
                       /\ rs[j].id = rs[i].id
                       /\ \A k \in (j + 1)..Len(rs) : rs[k].id # rs[i].id
        F[i \in 0..Len(rs)] ==
            IF i = 0 THEN <<>>
            ELSE IF first(i) THEN Append(F[i - 1], rs[last(i)]) ELSE F[i - 1]
    IN  F[Len(rs)]

(* client.get_records(_since=timestamp): the records modified after it;
   the timestamp is <<>> for None and <<t>> for t *)
GetRecordsSince(records, timestamp) ==
    SelectSeq(records,
              LAMBDA r : timestamp = <<>> \/ r.last_modified > timestamp[1])

(* The records fetch_existing returns, and the file it leaves behind *)
fetch_existing(file, records) ==
    LET previous_run_cache == IF file.exists THEN file.records ELSE <<>>
        previous_run_timestamp ==
            IF ~file.exists THEN <<>>
            ELSE <<MaxOf({previous_run_cache[i].last_modified :
                             i \in 1..Len(previous_run_cache)})>>
        new_records == GetRecordsSince(records, previous_run_timestamp)
        merged == MergeById(previous_run_cache \o new_records)
    IN  [records |-> merged,
         file |-> IF Len(merged) > 0 THEN File(merged) ELSE file]

----------------------------------------------------------------------------
(* to_kinto.py: publish_records.  `response` is what the server answers to
   the batch request: unreachable, or one result code per operation
   (0 when the result has no "code"). *)

Codes == {0, 412, 400, 503}

Operation(record) ==
    IF "id" \in DOMAIN record.data THEN "update_record" ELSE "create_record"

ErrorMsg(code) ==
    IF code = 412 THEN "already exists"
    ELSE IF code = 400 THEN "Invalid record" ELSE "Error"

(* Faulty variant: only the first failing operation is reported *)
ErrorMsgsFirst(results) ==
    LET failing == {i \in 1..Len(results) : results[i] # 0}
    IN  IF failing = {} THEN <<>>
        ELSE LET i == CHOOSE x \in failing : \A y \in failing : x <= y
             IN  <<[op |-> i, msg |-> ErrorMsg(results[i])]>>

(* error_msgs: a message for each result that has a code, in order *)
ErrorMsgs(results) ==
    LET F[i \in 0..Len(results)] ==
            IF i = 0 THEN <<>>
            ELSE IF results[i] # 0
                 THEN Append(F[i - 1], [op |-> i, msg |-> ErrorMsg(results[i])])
                 ELSE F[i - 1]
    IN  F[Len(results)]

publish_records(records, response) ==
    LET ops == [i \in 1..Len(records) |-> Operation(records[i])]
        error_msgs == ErrorMsgs(response.codes)
    IN  IF ~response.reachable
        THEN [ops |-> ops, raised |-> "KintoException", error_msgs |-> <<>>]
        ELSE IF error_msgs # <<>>
        THEN [ops |-> ops, raised |-> "ValueError", error_msgs |-> error_msgs]
        ELSE [ops |-> ops, raised |-> None, error_msgs |-> <<>>]

(* The answers of the server to a batch of n operations: unreachable, or a
   result for each operation *)
Responses(n) ==
    {[reachable |-> FALSE, codes |-> <<>>]} \cup
    {[reachable |-> TRUE, codes |-> c] : c \in [1..n -> Codes]}

(* The batches publish_records is called with on its own *)
MaxOps == 3

RECURSIVE SeqsUpTo(_, _)
SeqsUpTo(S, n) ==
    IF n = 0 THEN {<<>>}
    ELSE LET shorter == SeqsUpTo(S, n - 1)
         IN  shorter \cup {Append(q, x) : q \in {r \in shorter : Len(r) = n - 1}, x \in S}

NotCalled == [called |-> FALSE]

(* publish_records(client, records), the server answering `response` *)
PublishRecords ==
    /\ pub = NotCalled
    /\ \E records \in SeqsUpTo({[data |-> DA1], [data |-> DNoId]}, MaxOps) :
          \E response \in Responses(Len(records)) :
             pub' = [called |-> TRUE, records |-> records, response |-> response,
                     out |-> publish_records(records, response)]
    /\ UNCHANGED <<prog, mpc, error, stdin, cache_file, existing, queue,
                   unfinished, nput, cpc, batch, batch_max, tasks, skipped,
                   logged, crawl, aside>>

(* The answers the pipeline is run against: unreachable, all operations
   applied, or the first operation rejected as a conflict *)
PipelineResponses(n) ==
    { [reachable |-> FALSE, codes |-> <<>>],
      [reachable |-> TRUE, codes |-> [i \in 1..n |-> 0]],
      [reachable |-> TRUE, codes |-> [i \in 1..n |-> IF i = 1 THEN 412 ELSE 0]] }

----------------------------------------------------------------------------
(* The event loop *)

(* run_until_complete(main) has not returned *)
LoopRunning == mpc \notin {"end", "failed"}

(* No coroutine is between two awaits: consume() is suspended in queue.get(),
   or it is over. *)
LoopIdle == LoopRunning /\ cpc \in {"waiting", "crashed", "cancelled"}

(* asyncio.Queue.put on the unbounded queue, for each of `recs` in order;
   the n-th item put since the start carries the number n *)
PutAll(recs) ==
    /\ queue' = queue \o [i \in 1..Len(recs) |-> [n |-> nput + i, rec |-> recs[i]]]
    /\ nput' = nput + Len(recs)
    /\ unfinished' = unfinished + Len(recs)

Put(rec) == PutAll(<<rec>>)

----------------------------------------------------------------------------
(* to_kinto.py: main, up to the first await of produce() *)

MainStartKintoWith(skips) ==
    /\ prog = "to_kinto"
    /\ mpc = "start"
    /\ \E skip \in skips, server \in ServerRecords :
          LET got == fetch_existing(cache_file, server)
          IN  /\ existing' = IF skip THEN got.records ELSE <<>>
              /\ cache_file' = IF skip THEN got.file ELSE cache_file
    /\ mpc' = "produce"
    /\ UNCHANGED <<prog, error, stdin, queue, unfinished, nput, cpc,
                   batch, batch_max, tasks, skipped, logged, crawl, pub, aside>>

MainStartKinto == MainStartKintoWith(BOOLEAN)

(* to_kinto.py: produce, one line *)
ValidLine(record) == "data" \in DOMAIN record \/ "permission" \in DOMAIN record

ProduceLineWith(lines, max) ==
    /\ prog = "to_kinto"
    /\ mpc = "produce"
    /\ LoopIdle
    /\ Len(stdin) < max
    /\ \E record \in lines :
          /\ stdin' = Append(stdin, record)
          /\ IF ValidLine(record)
             THEN /\ Put(record)
                  /\ UNCHANGED <<mpc, error>>
             ELSE /\ mpc' = "failed"
                  /\ error' = "ValueError"
                  /\ UNCHANGED <<queue, nput, unfinished>>
    /\ UNCHANGED <<prog, cache_file, existing, cpc, batch, batch_max,
                   tasks, skipped, logged, crawl, pub, aside>>

ProduceLine == ProduceLineWith(Lines, MaxLines)

(* to_kinto.py: produce at EOF, then main calls queue.join() *)
ProduceEOF ==
    /\ prog = "to_kinto"
    /\ mpc = "produce"
    /\ LoopIdle
    /\ Put(done)
    /\ mpc' = "join"
    /\ UNCHANGED <<prog, error, stdin, cache_file, existing, cpc,
                   batch, batch_max, tasks, skipped, logged, crawl, pub, aside>>

(* Faulty variant: main does not wait in queue.join() *)
JoinReturnsAtOnce == TRUE

(* queue.join() returns *)
JoinReturns == unfinished = 0

(* main: queue.join() returns and consumer.cancel() is called *)
MainJoin ==
    /\ mpc = "join"
    /\ LoopIdle
    /\ JoinReturns
    /\ cpc' = IF cpc = "waiting" THEN "cancelled" ELSE cpc
    /\ mpc' = "end"
    /\ UNCHANGED <<prog, error, stdin, cache_file, existing, queue,
                   unfinished, nput, batch, batch_max, tasks, skipped, logged, crawl, pub, aside>>

----------------------------------------------------------------------------
(* scrape_archives.py: the archive the crawl runs against.  A folder or file
   entry carries, beside its name, what the filters of the crawl read in
   the name. *)

PRODUCTS == <<"fennec", "firefox", "thunderbird">>

(* fetch_products(session, queue, products, client): the products crawled *)
Products == SubSeq(PRODUCTS, 1, NumProducts)

Range(f) == {f[i] : i \in DOMAIN f}

(* prefixes of <product>/nightly/<year>/<month>/ *)
DaysFolders(product) ==
    IF product = "firefox"
    THEN << [name |-> "01-mozilla-aurora", stamp |-> 1, central |-> FALSE],
            [name |-> "02-mozilla-central", stamp |-> 2, central |-> TRUE] >>
    ELSE <<>>

(* files of a day folder *)
DayFiles(product, day) ==
    << [name |-> "firefox-57.0a1.en-US.linux.tar.bz2", match |-> TRUE,
        tests |-> FALSE, version |-> "57.0a1", locale |-> "en-US",
        platform |-> "linux", last_modified |-> 1],
       [name |-> "firefox-57.0a1.en-US.linux.common.tests.zip", match |-> TRUE,
        tests |-> TRUE, version |-> "57.0a1", locale |-> "en-US",
        platform |-> "linux.common.tests", last_modified |-> 1] >>

(* A version string: "50.0" is Version(50, 0), "50.0b3" is Version(50, 3);
   EmptyString is "", and the name of a folder that is not a version *)
Version(major, beta) == [major |-> major, beta |-> beta]
EmptyString == [empty |-> TRUE]

(* packaging.version.parse, as the key it orders by: the release number,
   then a beta before the final release; a string that is not a version is
   below every version *)
version_parse(v) ==
    IF v = EmptyString THEN 0
    ELSE v.major * 100 + (IF v.beta = 0 THEN 99 ELSE v.beta)

(* prefixes of <product>/releases/ *)
VersionsFolders(product) ==
    IF product = "firefox"
    THEN << [name |-> "55.0", digit |-> TRUE, funnelcake |-> FALSE,
             version |-> Version(55, 0)],
            [name |-> "latest", digit |-> FALSE, funnelcake |-> FALSE,
             version |-> EmptyString] >>
    ELSE <<>>

(* prefixes of a version folder, of a platform folder; files of a locale *)
PlatformFolders(product, version) == <<"linux", "source">>

LocaleFolders(product, version, platform) == <<"en-US", "fr", "xpi">>

LocaleFiles(product, version, platform, locale) ==
    << [name |-> "firefox-55.0.tar.bz2", match |-> TRUE, sdk |-> FALSE,
        last_modified |-> 2],
       [name |-> "firefox-55.0.sdk.tar.bz2", match |-> TRUE, sdk |-> TRUE,
        last_modified |-> 2] >>

(* What a metadata file holds; NoMetadata stands for None *)
NoMetadata == [none |-> TRUE]
Metadata == [buildid |-> "20170601", moz_update_channel |-> "release",
             moz_source_stamp |-> "rev", tree |-> "mozilla-release"]

(* archive(): the record of one file *)
archive(product, version, platform, locale, channel, url, date, metadata) ==
    [build |-> IF metadata # NoMetadata THEN metadata.buildid ELSE None,
     source |-> [revision |-> IF metadata # NoMetadata
                              THEN metadata.moz_source_stamp ELSE None,
                 tree |-> IF metadata # NoMetadata THEN metadata.tree ELSE None,
                 product |-> product],
     target |-> [platform |-> platform, locale |-> locale, version |-> version,
                 channel |-> IF metadata # NoMetadata
                             THEN metadata.moz_update_channel ELSE channel],
     download |-> [url |-> url, date |-> date]]

----------------------------------------------------------------------------
(* scrape_archives.py: the coroutines of the crawl.  asyncio.gather makes a
   task of each coroutine it is given; a task is named by the call it runs. *)

Top == <<"products">>

(* The coroutine that awaits the gather a task was made in *)
Parent(id) ==
    CASE id[1] \in {"nightlies", "versions"} -> Top
      [] id[1] = "day" -> <<"nightlies", id[2]>>
      [] id[1] = "platforms" -> <<"versions", id[2]>>
      [] id[1] = "locales" -> <<"platforms", id[2], id[3]>>
      [] id[1] = "files" -> <<"locales", id[2], id[3], id[4]>>
      [] OTHER -> <<"main">>

(* crawl maps the coroutines called so far to their state.
   A coroutine: pc "idle" (not called), "listing" (in fetch_listing),
   "gather" (in asyncio.gather), "metadata" (in fetch_*_metadata for file k),
   "puts" (in the gather of the queue.put calls), "done" or "failed";
   recs are the records fetch_files has built *)
Coroutine(pc, k, recs) == [pc |-> pc, k |-> k, recs |-> recs]

Called == DOMAIN crawl
Pc(id) == IF id \in Called THEN crawl[id].pc ELSE "idle"

(* crawl with coroutine id in state co *)
Becomes(id, co) == [c \in Called \cup {id} |-> IF c = id THEN co ELSE crawl[c]]

Kids(id) == {c \in Called : Parent(c) = id}

(* The future asyncio.gather returns is resolved: with the first exception a
   child raises, or when every child has returned *)
GatherRaised(id) == \E c \in Kids(id) : crawl[c].pc = "failed"
GatherReturned(id) == \A c \in Kids(id) : crawl[c].pc = "done"
GatherResolved(id) == GatherRaised(id) \/ GatherReturned(id)

(* fetch_nightlies: the days kept, and the files of the listings that yield
   a record *)
DaysKept(product, latest_nightly_folder) ==
    SelectSeq(DaysFolders(product),
              LAMBDA f : f.stamp > latest_nightly_folder /\ f.central)

NightlyFiles(product) ==
    LET days == SelectSeq(DaysFolders(product),
                    LAMBDA f : <<"day", product, f.name>> \in Called)
        keep(day) == SelectSeq(DayFiles(product, day),
                         LAMBDA file : file.match /\ ~file.tests)
        F[i \in 0..Len(days)] ==
            IF i = 0 THEN <<>>
            ELSE F[i - 1] \o [j \in 1..Len(keep(days[i].name)) |->
                                 [day |-> days[i].name,
                                  file |-> keep(days[i].name)[j]]]
    IN  F[Len(days)]

NightlyRecord(product, entry, metadata) ==
    archive(product, entry.file.version, entry.file.platform, entry.file.locale,
            "nightly", <<product, "nightly", entry.day, entry.file.name>>,
            entry.file.last_modified, metadata)

(* fetch_nightlies from file k on, up to the next await that suspends: the
   state it stops in and the records it has put on the queue *)
RECURSIVE RunNightlies(_, _, _)
RunNightlies(product, k, puts) ==
    LET entries == NightlyFiles(product)
    IN  IF k > Len(entries) THEN [co |-> Coroutine("done", 0, <<>>), puts |-> puts]
        ELSE IF entries[k].file.locale = "en-US"
        THEN [co |-> Coroutine("metadata", k, <<>>), puts |-> puts]
        ELSE RunNightlies(product, k + 1,
                 Append(puts, NightlyRecord(product, entries[k], NoMetadata)))

(* fetch_versions, fetch_platforms, fetch_locales: the children kept *)
(* Faulty variant: a version equal to the latest known one is kept *)
VersionsFromLatest(versions_folders, latest_version) ==
    SelectSeq(versions_folders,
              LAMBDA v : /\ v.digit
                         /\ ~v.funnelcake
                         /\ version_parse(v.version) >= version_parse(latest_version))

(* fetch_versions: `versions`, the folders a sub-crawl is started for *)
VersionsOf(versions_folders, latest_version) ==
    SortSeq(SelectSeq(versions_folders,
                LAMBDA v : /\ v.digit
                           /\ ~v.funnelcake
                           /\ version_parse(v.version) > version_parse(latest_version)),
            LAMBDA a, b : version_parse(a.version) > version_parse(b.version))

VersionsKept(product, latest_version) ==
    VersionsOf(VersionsFolders(product), latest_version)

PlatformsKept(product, version) ==
    SelectSeq(PlatformFolders(product, version),
              LAMBDA pl : pl \notin {"source", "update", "contrib"})

LocalesKept(product, version, platform) ==
    SelectSeq(LocaleFolders(product, version, platform), LAMBDA l : l # "xpi")

(* fetch_files *)
FilesKept(product, version, platform, locale) ==
    SelectSeq(LocaleFiles(product, version, platform, locale),
              LAMBDA f : f.match /\ ~f.sdk)

ReleaseRecord(id, file, metadata) ==
    archive(id[2], id[3], id[4], id[5], None,
            <<id[2], "releases", id[3], id[4], id[5], file.name>>,
            file.last_modified, metadata)

(* fetch_files from file k on, up to the next await that suspends *)
RECURSIVE RunFiles(_, _, _)
RunFiles(id, k, recs) ==
    LET files == FilesKept(id[2], id[3], id[4], id[5])
    IN  IF k > Len(files)
        THEN Coroutine(IF recs = <<>> THEN "done" ELSE "puts", 0, recs)
        ELSE IF id[5] = "en-US"
        THEN Coroutine("metadata", k, recs)
        ELSE RunFiles(id, k + 1, Append(recs, ReleaseRecord(id, files[k], NoMetadata)))

(* The tasks asyncio.gather makes run up to their first await, the listing *)
Spawn(f, ids) == [c \in (DOMAIN f) \cup ids |->
                     IF c \in ids THEN Coroutine("listing", 0, <<>>) ELSE f[c]]

(* The high-water marks client.get_records can give *)
LatestKnown == {EmptyString, Version(55, 0)}

(* scrape_archives.py: main up to the first await of fetch_products *)
MainStartScrape ==
    /\ prog = "scrape_archives"
    /\ mpc = "start"
    /\ mpc' = "produce"
    /\ crawl' = Spawn(Becomes(Top, Coroutine("gather", 0, <<>>)),
                      {<<"nightlies", p>> : p \in Range(Products)})
    /\ UNCHANGED <<prog, error, stdin, cache_file, existing, queue, unfinished,
                   nput, cpc, batch, batch_max, tasks, skipped, logged, pub, aside>>

(* fetch_listing raises: the coroutine ends with the exception *)
CrawlListingFails ==
    /\ prog = "scrape_archives"
    /\ LoopIdle
    /\ \E id \in Called :
          /\ crawl[id].pc = "listing"
          /\ crawl' = [crawl EXCEPT ![id] = Coroutine("failed", 0, <<>>)]
    /\ UNCHANGED <<prog, mpc, error, stdin, cache_file, existing, queue,
                   unfinished, nput, cpc, batch, batch_max, tasks, skipped,
                   logged, pub, aside>>

(* fetch_listing returns: the coroutine runs on to its next await *)
CrawlListing ==
    /\ prog = "scrape_archives"
    /\ LoopIdle
    /\ \E id \in Called, latest \in LatestKnown :
          /\ crawl[id].pc = "listing"
          /\ LET kids ==
                   CASE id[1] = "nightlies" ->
                          {<<"day", id[2], f.name>> :
                              f \in Range(DaysKept(id[2], IF latest = EmptyString THEN 0 ELSE 1))}
                     [] id[1] = "versions" ->
                          {<<"platforms", id[2], v.name>> :
                              v \in Range(VersionsKept(id[2], latest))}
                     [] id[1] = "platforms" ->
                          {<<"locales", id[2], id[3], pl>> :
                              pl \in Range(PlatformsKept(id[2], id[3]))}
                     [] id[1] = "locales" ->
                          {<<"files", id[2], id[3], id[4], l>> :
                              l \in Range(LocalesKept(id[2], id[3], id[4]))}
                     [] OTHER -> {}
                 self == IF id[1] = "files" THEN RunFiles(id, 1, <<>>)
                         ELSE IF kids = {} THEN Coroutine("done", 0, <<>>)
                         ELSE Coroutine("gather", 0, <<>>)
             IN  crawl' = Spawn([crawl EXCEPT ![id] = self], kids)
    /\ UNCHANGED <<prog, mpc, error, stdin, cache_file, existing, queue,
                   unfinished, nput, cpc, batch, batch_max, tasks, skipped,
                   logged, pub, aside>>

(* The outcomes of the await of a metadata fetch: the metadata, None (the
   error is caught), or an exception that is not caught (a timeout) *)
MetadataOutcomes == {"metadata", "none", "raise"}

CrawlMetadata ==
    /\ prog = "scrape_archives"
    /\ LoopIdle
    /\ \E id \in Called, outcome \in MetadataOutcomes :
          /\ crawl[id].pc = "metadata"
          /\ LET metadata == IF outcome = "metadata" THEN Metadata ELSE NoMetadata
                 k == crawl[id].k
             IN  IF outcome = "raise"
                 THEN /\ crawl' = [crawl EXCEPT ![id] = Coroutine("failed", 0, <<>>)]
                      /\ UNCHANGED <<queue, nput, unfinished>>
                 ELSE IF id[1] = "nightlies"
                 THEN LET run == RunNightlies(id[2], k + 1,
                                     <<NightlyRecord(id[2], NightlyFiles(id[2])[k],
                                                     metadata)>>)
                      IN  /\ crawl' = [crawl EXCEPT ![id] = run.co]
                          /\ PutAll(run.puts)
                 ELSE /\ crawl' = [crawl EXCEPT ![id] =
                              RunFiles(id, k + 1,
                                  Append(crawl[id].recs,
                                         ReleaseRecord(id, FilesKept(id[2], id[3],
                                             id[4], id[5])[k], metadata)))]
                      /\ UNCHANGED <<queue, nput, unfinished>>
    /\ UNCHANGED <<prog, mpc, error, stdin, cache_file, existing, cpc, batch,
                   batch_max, tasks, skipped, logged, pub, aside>>

(* The orders in which asyncio.gather can make the tasks of n coroutines
   (see GatherNext) *)
GatherOrders(n) == {f \in [1..n -> 1..n] : \A i, j \in 1..n : f[i] = f[j] => i = j}

(* fetch_files: the queue.put tasks of its gather run, in the order they
   were made, and fetch_files returns *)
CrawlPuts ==
    /\ prog = "scrape_archives"
    /\ LoopIdle
    /\ \E id \in Called :
          /\ crawl[id].pc = "puts"
          /\ \E order \in GatherOrders(Len(crawl[id].recs)) :
                PutAll([i \in 1..Len(crawl[id].recs) |-> crawl[id].recs[order[i]]])
          /\ crawl' = [crawl EXCEPT ![id] = Coroutine("done", 0, <<>>)]
    /\ UNCHANGED <<prog, mpc, error, stdin, cache_file, existing, cpc, batch,
                   batch_max, tasks, skipped, logged, pub, aside>>

(* A coroutine below fetch_products is resumed from its gather *)
CrawlGather ==
    /\ prog = "scrape_archives"
    /\ LoopIdle
    /\ \E id \in Called \ {Top} :
          /\ crawl[id].pc = "gather"
          /\ GatherResolved(id)
          /\ IF GatherRaised(id)
             THEN /\ crawl' = [crawl EXCEPT ![id] = Coroutine("failed", 0, <<>>)]
                  /\ UNCHANGED <<queue, nput, unfinished>>
             ELSE IF id[1] = "nightlies"
             THEN LET run == RunNightlies(id[2], 1, <<>>)
                  IN  /\ crawl' = [crawl EXCEPT ![id] = run.co]
                      /\ PutAll(run.puts)
             ELSE /\ crawl' = [crawl EXCEPT ![id] = Coroutine("done", 0, <<>>)]
                  /\ UNCHANGED <<queue, nput, unfinished>>
    /\ UNCHANGED <<prog, mpc, error, stdin, cache_file, existing, cpc, batch,
                   batch_max, tasks, skipped, logged, pub, aside>>

(* fetch_products is resumed from a gather: the nightlies are done and the
   releases start, or the releases are done, produce returns and main calls
   queue.join(); or the exception goes up through produce and main *)
CrawlProducts ==
    /\ prog = "scrape_archives"
    /\ mpc = "produce"
    /\ LoopIdle
    /\ Pc(Top) = "gather"
    /\ GatherResolved(Top)
    /\ LET versions == {<<"versions", p>> : p \in Range(Products)}
       IN  IF GatherRaised(Top)
           THEN /\ crawl' = [crawl EXCEPT ![Top] = Coroutine("failed", 0, <<>>)]
                /\ mpc' = "failed"
                /\ error' = "CrawlError"
           ELSE IF versions \cap Kids(Top) = {}
           THEN /\ crawl' = Spawn(crawl, versions)
                /\ UNCHANGED <<mpc, error>>
           ELSE /\ crawl' = [crawl EXCEPT ![Top] = Coroutine("done", 0, <<>>)]
                /\ mpc' = "join"
                /\ UNCHANGED error
    /\ UNCHANGED <<prog, stdin, cache_file, existing, queue, unfinished, nput,
                   cpc, batch, batch_max, tasks, skipped, logged, pub, aside>>

(* scrape_archives.py: publish_records *)
scrape_publish_records(records, response) ==
    [ops |-> [i \in 1..Len(records) |-> "create_record"],
     raised |-> IF ~response.reachable THEN "KintoException" ELSE None]

----------------------------------------------------------------------------
(* consume *)

(* to_kinto.py: records_by_id and records_equal *)
records_by_id == [id \in {existing[i].id : i \in 1..Len(existing)} |->
                     existing[CHOOSE i \in 1..Len(existing) :
                         /\ existing[i].id = id
                         /\ \A j \in (i + 1)..Len(existing) : existing[j].id # id]]

(* Faulty variant: no field is left out of the comparison *)
records_equal_all_fields(r1, r2) == r1 = r2

records_equal(r1, r2) ==
    LET omit == {"last_modified", "schema"}
    IN  Without(r1, omit) = Without(r2, omit)

Known(record) ==
    LET rid == Get(record.data, "id")
    IN  /\ prog = "to_kinto"
        /\ rid \in DOMAIN records_by_id
        /\ records_equal(record.data, records_by_id[rid])

(* The consumer task runs for the first time: everything before the loop *)
ConsumeStartWith(sizes) ==
    /\ cpc = "init"
    /\ mpc = "produce"
    /\ \E n \in sizes : batch_max' = n
    /\ batch' = <<>>
    /\ cpc' = "collect"
    /\ UNCHANGED <<prog, mpc, error, stdin, cache_file, existing,
                   queue, unfinished, nput, tasks, skipped, logged, crawl, pub, aside>>

ConsumeStart == ConsumeStartWith(1..MaxBatch)

(* Faulty variant: the loop test is `<=` *)
BatchFullLate == Len(batch) > batch_max

(* `while len(batch) < ideal_batch_size` ends *)
BatchFull == Len(batch) >= batch_max

(* The inner loop: its test, and queue.get() *)
ConsumeGet ==
    /\ cpc = "collect"
    /\ LoopRunning
    /\ IF BatchFull
       THEN /\ cpc' = "flush"
            /\ UNCHANGED <<queue, unfinished, batch, skipped>>
       ELSE IF queue = <<>>
       THEN /\ cpc' = "waiting"
            /\ UNCHANGED <<queue, unfinished, batch, skipped>>
       ELSE LET item == Head(queue)
            IN  /\ queue' = Tail(queue)
                /\ IF prog = "to_kinto" /\ item.rec = done
                   THEN /\ unfinished' = unfinished - 1
                        /\ cpc' = "flush"
                        /\ UNCHANGED <<batch, skipped>>
                   ELSE IF prog = "to_kinto" /\ "data" \notin DOMAIN item.rec
                   THEN /\ cpc' = "crashed"
                        /\ UNCHANGED <<unfinished, batch, skipped>>
                   ELSE IF Known(item.rec)
                   THEN /\ unfinished' = unfinished - 1
                        /\ skipped' = skipped \cup {item.n}
                        /\ UNCHANGED <<cpc, batch>>
                   ELSE /\ batch' = Append(batch, item)
                        /\ UNCHANGED <<cpc, unfinished, skipped>>
    /\ UNCHANGED <<prog, mpc, error, stdin, cache_file, existing,
                   nput, batch_max, tasks, logged, crawl, pub, aside>>

(* An item arrived while consume() was suspended in queue.get() *)
ConsumeWake ==
    /\ cpc = "waiting"
    /\ LoopRunning
    /\ queue # <<>>
    /\ cpc' = "collect"
    /\ UNCHANGED <<prog, mpc, error, stdin, cache_file, existing,
                   queue, unfinished, nput, batch, batch_max, tasks, skipped,
                   logged, crawl, pub, aside>>

(* async_timeout: the timer fires while consume() is suspended *)
ConsumeTimeout ==
    /\ cpc = "waiting"
    /\ LoopRunning
    /\ cpc' = "flush"
    /\ UNCHANGED <<prog, mpc, error, stdin, cache_file, existing,
                   queue, unfinished, nput, batch, batch_max, tasks, skipped,
                   logged, crawl, pub, aside>>

(* The thread pool: a future is "queued" while all NB_THREADS workers are
   busy, "running" in a worker, "done" once publish_records returned or
   raised, "called" once its done callback ran on the loop. *)
Running == {i \in 1..Len(tasks) : tasks[i].st = "running"}

(* Faulty variant: the batch is submitted without its first record *)
run_in_executor_tail(items) ==
    Append(tasks, [batch |-> Tail(items), n |-> Len(items), raised |-> None,
                   st |-> IF Cardinality(Running) < NB_THREADS
                          THEN "running" ELSE "queued"])

(* loop.run_in_executor(executor, publish_records, client, batch) *)
run_in_executor(items) ==
    Append(tasks, [batch |-> items, n |-> Len(items), raised |-> None,
                   st |-> IF Cardinality(Running) < NB_THREADS
                          THEN "running" ELSE "queued"])

(* Faulty variant: the batch is submitted when it is empty, too *)
HasBatchAlways == TRUE

(* `if batch:` *)
HasBatch == batch # <<>>

(* `if batch:` run_in_executor and add_done_callback; then the next round *)
ConsumeFlush ==
    /\ cpc = "flush"
    /\ LoopRunning
    /\ tasks' = IF HasBatch THEN run_in_executor(batch) ELSE tasks
    /\ batch' = <<>>
    /\ cpc' = "collect"
    /\ UNCHANGED <<prog, mpc, error, stdin, cache_file, existing,
                   queue, unfinished, nput, batch_max, skipped, logged, crawl, pub, aside>>

----------------------------------------------------------------------------
(* The workers and the done callbacks *)

Records(items) == [i \in 1..Len(items) |-> items[i].rec]

(* A worker ends publish_records for one batch and takes the next one *)
WorkerFinishWith(answers) ==
    /\ \E i \in Running :
          \E response \in answers[tasks[i].n] :
             LET raised == IF prog = "to_kinto"
                           THEN publish_records(Records(tasks[i].batch),
                                                response).raised
                           ELSE scrape_publish_records(Records(tasks[i].batch),
                                                       response).raised
                 waiting == {j \in 1..Len(tasks) : tasks[j].st = "queued"}
             IN  tasks' = [j \in 1..Len(tasks) |->
                     IF j = i THEN [tasks[j] EXCEPT !.st = "done", !.raised = raised]
                     ELSE IF j \in waiting /\ \A k \in waiting : j <= k
                     THEN [tasks[j] EXCEPT !.st = "running"]
                     ELSE tasks[j]]
    /\ UNCHANGED <<prog, mpc, error, stdin, cache_file, existing,
                   queue, unfinished, nput, cpc, batch, batch_max, skipped,
                   logged, crawl, pub, aside>>

WorkerFinish == WorkerFinishWith([n \in Nat |-> PipelineResponses(n)])

(* markdone(queue, n): what the callback does to the queue and whether it
   raises *)
markdone(n, raised) ==
    [task_done |-> n, raises |-> prog = "to_kinto" /\ raised # None]

MarkDone ==
    /\ LoopIdle
    /\ \E i \in 1..Len(tasks) :
          /\ tasks[i].st = "done"
          /\ LET cb == markdone(tasks[i].n, tasks[i].raised)
             IN  /\ unfinished' = unfinished - cb.task_done
                 /\ logged' = IF cb.raises THEN logged \cup {i} ELSE logged
          /\ tasks' = [tasks EXCEPT ![i].st = "called"]
    /\ UNCHANGED <<prog, mpc, error, stdin, cache_file, existing,
                   queue, nput, cpc, batch, batch_max, skipped, crawl, pub, aside>>

----------------------------------------------------------------------------
Init ==
    /\ prog \in {"to_kinto", "scrape_archives"}
    /\ mpc = "start"
    /\ error = None
    /\ stdin = <<>>
    /\ cache_file \in {NoFile, File(<<RA1>>)}
    /\ existing = <<>>
    /\ queue = <<>>
    /\ unfinished = 0
    /\ nput = 0
    /\ cpc = "init"
    /\ batch = <<>>
    /\ batch_max = 0
    /\ tasks = <<>>
    /\ skipped = {}
    /\ logged = {}
    /\ crawl = <<>>
    /\ pub = NotCalled
    /\ store = {}
    /\ lam = NotCalled
    /\ call = NotCalled
    /\ runs = NotCalled

(* The steps of the consumer, the workers and the end of main, which the two
   programs share *)
Pipeline ==
    \/ MainJoin
    \/ ConsumeStart
    \/ ConsumeGet
    \/ ConsumeWake
    \/ ConsumeTimeout
    \/ ConsumeFlush
    \/ WorkerFinish
    \/ MarkDone

ToKinto ==
    \/ MainStartKinto
    \/ ProduceLine
    \/ ProduceEOF

ScrapeArchives ==
    \/ MainStartScrape
    \/ CrawlListingFails
    \/ CrawlListing
    \/ CrawlMetadata
    \/ CrawlPuts
    \/ CrawlGather
    \/ CrawlProducts

Next == ToKinto \/ ScrapeArchives \/ Pipeline

Spec == Init /\ [][Next]_vars

(* scrape_archives alone *)
InitScrape == Init /\ prog = "scrape_archives"
NextScrape == ScrapeArchives \/ Pipeline
SpecScrape == InitScrape /\ [][NextScrape]_vars

(* to_kinto alone *)
InitKinto == Init /\ prog = "to_kinto"
NextKinto == ToKinto \/ Pipeline
SpecKinto == InitKinto /\ [][NextKinto]_vars

(* to_kinto with its scheduling: the loop runs every callback that is ready
   and resumes every coroutine that can go on (strong fairness: the turn of a
   coroutine comes although the others run in between), stdin reaches its
   end, the timer of async_timeout fires, and a worker thread that runs
   publish_records returns or raises *)
FairKinto ==
    /\ SF_vars(MainStartKinto)
    /\ SF_vars(ProduceEOF)
    /\ SF_vars(MainJoin)
    /\ SF_vars(ConsumeStart)
    /\ SF_vars(ConsumeGet)
    /\ SF_vars(ConsumeWake)
    /\ SF_vars(ConsumeFlush)
    /\ SF_vars(MarkDone)
    /\ WF_vars(ConsumeTimeout)
    /\ WF_vars(WorkerFinish)

SpecKintoLive == InitKinto /\ [][NextKinto]_vars /\ FairKinto

(* publish_records of to_kinto.py on its own *)
SpecPublish == InitKinto /\ [][PublishRecords]_vars

(* to_kinto with --skip not given, every line a record, no answer of the
   server but "applied", and a wait timer that never fires: the run of
   N records and a batch maximum B *)
ExampleRecords == 60
ExampleBatchMax == 25

BatchesStart == MainStartKintoWith({FALSE})
BatchesLine ==
    ProduceLineWith({[data |-> DA1]},
                    IF batch_max = ExampleBatchMax THEN ExampleRecords
                    ELSE MaxLines + 2)
BatchesConsumeStart == ConsumeStartWith((1..MaxBatch) \cup {ExampleBatchMax})
Applied(n) == {[reachable |-> TRUE, codes |-> [i \in 1..n |-> 0]]}
BatchesWorkerFinish == WorkerFinishWith([n \in Nat |-> Applied(n)])

NextBatches ==
    \/ BatchesStart
    \/ BatchesLine
    \/ ProduceEOF
    \/ MainJoin
    \/ BatchesConsumeStart
    \/ ConsumeGet
    \/ ConsumeWake
    \/ ConsumeFlush
    \/ BatchesWorkerFinish
    \/ MarkDone

InitBatches == InitKinto /\ cache_file = NoFile
SpecBatches == InitBatches /\ [][NextBatches]_vars

----------------------------------------------------------------------------
(* The variables of to_kinto and scrape_archives before main() of program p
   is called *)
AtRest(p) ==
    /\ prog = p
    /\ mpc = "start"
    /\ error = None
    /\ stdin = <<>>
    /\ cache_file = NoFile
    /\ existing = <<>>
    /\ queue = <<>>
    /\ unfinished = 0
    /\ nput = 0
    /\ cpc = "init"
    /\ batch = <<>>
    /\ batch_max = 0
    /\ tasks = <<>>
    /\ skipped = {}
    /\ logged = {}
    /\ crawl = <<>>
    /\ pub = NotCalled

Programs == <<prog, mpc, error, stdin, cache_file, existing, queue, unfinished,
              nput, cpc, batch, batch_max, tasks, skipped, logged, crawl, pub>>

----------------------------------------------------------------------------
(* The Kinto collection.  A record of it is [id, data]. *)

Ids(records) == {r.id : r \in records}

(* The timestamp the server gives the next record it writes *)
Timestamp(records) ==
    IF records = {} THEN 1 ELSE MaxOf({r.last_modified : r \in records}) + 1

(* client.create_record(data) of scrape_archives: the data holds no id, and
   the client gives the record a new one *)
create_record(records, data, uuid) ==
    records \cup {[id |-> uuid, data |-> data, last_modified |-> Timestamp(records)]}

(* client.get_records of fetch_versions, and latest_version *)
LatestVersion(records, product) ==
    LET found == {r \in records : /\ r.data.source.product = product
                                  /\ r.data.target.channel = "beta"}
    IN  IF found = {} THEN EmptyString
        ELSE (CHOOSE r \in found :
                 \A q \in found : r.data.download.date >= q.data.download.date
             ).data.target.version

----------------------------------------------------------------------------
(* scrape_archives run after run over one remote tree: the releases of one
   product.  A run computes latest_version from the collection, crawls the
   versions kept, and each record it puts on the queue is created in the
   collection; a listing that fails ends the run. *)

MaxRuns == 2       \* runs of scrape_archives
TreeVersions == 2  \* version folders of the remote tree

BetaMetadata == [Metadata EXCEPT !.moz_update_channel = "beta"]

(* The remote tree: the folders of <product>/releases/, "49.0b1/" onwards,
   each with one platform, two locales and one file per locale *)
TreeFolders ==
    [i \in 1..TreeVersions |->
        [name |-> <<48 + i, "b1">>, digit |-> TRUE, funnelcake |-> FALSE,
         version |-> Version(48 + i, 1)]]

Tree == {[folder |-> f, locale |-> l] :
            f \in Range(TreeFolders), l \in {"en-US", "fr"}}

(* The record fetch_files builds for a file of the tree; the metadata is
   there for en-US only *)
TreeRecord(a) ==
    archive("firefox", a.folder.version, "linux", a.locale, None,
            <<"firefox", "releases", a.folder.name, "linux", a.locale>>,
            a.folder.version.major * 10 + (IF a.locale = "en-US" THEN 1 ELSE 2),
            IF a.locale = "en-US" THEN BetaMetadata ELSE NoMetadata)

Published(a) ==
    \E r \in store : r.data.download.url = TreeRecord(a).download.url

(* main is called: fetch_versions reads latest_version and keeps versions *)
RunStart ==
    /\ runs = NotCalled \/ (runs # NotCalled /\ runs.pc = "over" /\ runs.n < MaxRuns)
    /\ LET latest_version == LatestVersion(store, "firefox")
       IN  runs' = [n |-> IF runs = NotCalled THEN 1 ELSE runs.n + 1,
                    pc |-> "crawl",
                    latest_version |-> latest_version,
                    kept |-> Range(VersionsOf(TreeFolders, latest_version)),
                    put |-> {},
                    raised |-> FALSE]
    /\ UNCHANGED <<Programs, store, lam, call>>

(* fetch_files puts the record of a file on the queue, and it is published *)
RunPut ==
    /\ runs # NotCalled
    /\ runs.pc = "crawl"
    /\ \E a \in Tree :
          /\ a.folder \in runs.kept
          /\ a \notin runs.put
          /\ runs' = [runs EXCEPT !.put = @ \cup {a}]
          /\ store' = create_record(store, TreeRecord(a), <<"uuid", runs.n, a>>)
    /\ UNCHANGED <<Programs, lam, call>>

(* A fetch_listing of the first run raises: the run is over *)
RunListingFails ==
    /\ runs # NotCalled
    /\ runs.pc = "crawl"
    /\ runs.n = 1
    /\ \E a \in Tree : a.folder \in runs.kept /\ a \notin runs.put
    /\ runs' = [runs EXCEPT !.pc = "over", !.raised = TRUE]
    /\ UNCHANGED <<Programs, store, lam, call>>

(* Every file of the versions kept was put and published: the run is over *)
RunEnd ==
    /\ runs # NotCalled
    /\ runs.pc = "crawl"
    /\ \A a \in Tree : a.folder \in runs.kept => a \in runs.put
    /\ runs' = [runs EXCEPT !.pc = "over"]
    /\ UNCHANGED <<Programs, store, lam, call>>

InitRuns ==
    /\ AtRest("scrape_archives")
    /\ store = {}
    /\ lam = NotCalled
    /\ call = NotCalled
    /\ runs = NotCalled

NextRuns ==
    \/ RunStart
    \/ RunPut
    \/ RunListingFails
    \/ RunEnd

SpecRuns == InitRuns /\ [][NextRuns]_vars

----------------------------------------------------------------------------
(* lambda_s3_event.py.  The functions of buildhub.utils and
   buildhub.inventory_to_records it calls are given by what they answer. *)

MaxEvent == 2       \* records of an event
MaxDeliveries == 2  \* times lambda_handler is called with the event

ALL_PRODUCTS == {"firefox", "thunderbird", "mobile", "devedition"}

(* A notification of S3, with the answers of the archive for its key: what
   utils.is_build_url, is_rc_build_metadata and is_nightly_build_metadata say
   of it (kind), the metadata there is for it (NoMetadata when there is
   none), and the archives listed next to a metadata file *)
Notification(kind, product, key, metadata, files) ==
    [kind |-> kind, product |-> product, key |-> key, metadata |-> metadata,
     files |-> files, size |-> 7, eventTime |-> 3]

ArchiveReady ==
    Notification("archive", "firefox", "firefox-55.0.tar.bz2", Metadata, <<>>)
ArchiveNotReady ==
    Notification("archive", "firefox", "firefox-56.0.tar.bz2", NoMetadata, <<>>)
RcMetadata ==
    Notification("rc_metadata", "firefox", "firefox-55.0b12.json", BetaMetadata,
                 <<"firefox-55.0b12.tar.bz2", "fr/firefox-55.0b12.tar.bz2">>)
NightlyMetadata ==
    Notification("nightly_metadata", "firefox", "firefox-57.0a1.en-US.linux.json",
                 Metadata, <<"firefox-57.0a1.en-US.linux.tar.bz2">>)
OtherProduct ==
    Notification("archive", "calendar", "lightning-5.4.tar.bz2", Metadata, <<>>)
Ignored ==
    Notification("other", "firefox", "firefox-55.0.checksums", NoMetadata, <<>>)

Notifications ==
    {ArchiveReady, ArchiveNotReady, RcMetadata, NightlyMetadata, OtherProduct,
     Ignored}

(* A record of the event that came through SNS *)
Sns(records) == [EventSource |-> "aws:sns", Records |-> records]

EventRecords == Notifications \cup {Sns(<<ArchiveNotReady, ArchiveReady>>)}

(* main: the records of the event, those of an SNS message unfolded *)
RECURSIVE Unfold(_)
Unfold(event) ==
    IF event = <<>> THEN <<>>
    ELSE (IF Get(Head(event), "EventSource") = "aws:sns"
          THEN Head(event).Records ELSE <<Head(event)>>) \o Unfold(Tail(event))

(* utils.record_from_url: the record of an archive, its id made from the url *)
record_from_url(url) ==
    [id |-> <<"id", url>>, build |-> None,
     download |-> [url |-> url, size |-> None, date |-> None]]

(* utils.merge_metadata *)
merge_metadata(record, metadata) ==
    [record EXCEPT !.build = metadata.buildid]

(* The record of an archive with its size and date *)
Sized(record, size, date) ==
    [record EXCEPT !.download = [url |-> record.download.url,
                                 size |-> size, date |-> date]]

(* Faulty variant: an archive without metadata gets a record all the same *)
records_to_create_with_none(n) ==
    CASE n.kind = "archive" ->
             <<Sized(record_from_url(n.key), n.size, n.eventTime)>>
      [] n.kind \in {"rc_metadata", "nightly_metadata"} ->
             [i \in 1..Len(n.files) |->
                 merge_metadata(Sized(record_from_url(n.files[i]), 1, 1),
                                n.metadata)]
      [] OTHER -> <<>>

(* main: records_to_create for one record of the event, when no fetch raises *)
records_to_create(n) ==
    CASE n.kind = "archive" ->
             IF n.metadata = NoMetadata THEN <<>>
             ELSE <<merge_metadata(Sized(record_from_url(n.key), n.size,
                                         n.eventTime), n.metadata)>>
      [] n.kind \in {"rc_metadata", "nightly_metadata"} ->
             [i \in 1..Len(n.files) |->
                 merge_metadata(Sized(record_from_url(n.files[i]), 1, 1),
                                n.metadata)]
      [] OTHER -> <<>>

(* Faulty variant: the record is written whether or not it exists *)
create_record_always(records, data) ==
    {r \in records : r.id # data.id}
        \cup {[id |-> data.id, data |-> data, last_modified |-> Timestamp(records)]}

(* kinto_client.create_record(data=record, if_not_exists=True) *)
create_record_if_not_exists(records, data) ==
    IF data.id \in Ids(records) THEN records
    ELSE records \cup {[id |-> data.id, data |-> data,
                        last_modified |-> Timestamp(records)]}

(* main: the loop over records_to_create *)
RECURSIVE CreateAll(_, _)
CreateAll(records, recs) ==
    IF recs = <<>> THEN records
    ELSE CreateAll(create_record_if_not_exists(records, Head(recs)), Tail(recs))

(* Does the record of the event make main fetch something? *)
Fetches(n) == n.product \in ALL_PRODUCTS /\ n.kind # "other"

(* lambda_handler(event): main runs up to its loop *)
LambdaCall(event, delivery, seen) ==
    lam' = [called |-> TRUE, pc |-> "loop", event |-> event,
            records |-> Unfold(event), k |-> 1, log |-> <<>>,
            delivery |-> delivery, seen |-> seen, error |-> None]

LambdaStart ==
    /\ lam = NotCalled
    /\ \E event \in UNION {[1..n -> EventRecords] : n \in 1..MaxEvent} :
          LambdaCall(event, 1, <<>>)
    /\ UNCHANGED <<Programs, store, call, runs>>

(* The same event is delivered again *)
LambdaRedeliver ==
    /\ lam # NotCalled
    /\ lam.pc \in {"end", "failed"}
    /\ lam.delivery < MaxDeliveries
    /\ LambdaCall(lam.event, lam.delivery + 1, lam.seen)
    /\ UNCHANGED <<Programs, store, call, runs>>

(* main: one turn of the loop over the records of the event; a fetch that
   raises ends main *)
LambdaRecord ==
    /\ lam # NotCalled
    /\ lam.pc = "loop"
    /\ lam.k <= Len(lam.records)
    /\ LET n == lam.records[lam.k]
       IN  \E raised \in {FALSE} \cup {b \in {TRUE} : Fetches(n)} :
              IF raised
              THEN /\ lam' = [lam EXCEPT
                                !.pc = "failed",
                                !.error = "Exception",
                                !.log = Append(@, [n |-> n, raised |-> TRUE,
                                                   created |-> <<>>]),
                                !.seen = Append(@, [ok |-> FALSE, store |-> store])]
                   /\ UNCHANGED store
              ELSE LET recs == IF n.product \in ALL_PRODUCTS
                               THEN records_to_create(n) ELSE <<>>
                   IN  /\ store' = CreateAll(store, recs)
                       /\ lam' = [lam EXCEPT
                                    !.k = @ + 1,
                                    !.log = Append(@, [n |-> n, raised |-> FALSE,
                                                       created |-> recs])]
    /\ UNCHANGED <<Programs, call, runs>>

(* main returns *)
LambdaEnd ==
    /\ lam # NotCalled
    /\ lam.pc = "loop"
    /\ lam.k > Len(lam.records)
    /\ lam' = [lam EXCEPT !.pc = "end",
                          !.seen = Append(@, [ok |-> TRUE, store |-> store])]
    /\ UNCHANGED <<Programs, store, call, runs>>

InitLambda ==
    /\ AtRest("lambda_s3_event")
    /\ store = {}
    /\ lam = NotCalled
    /\ call = NotCalled
    /\ runs = NotCalled

NextLambda ==
    \/ LambdaStart
    \/ LambdaRedeliver
    \/ LambdaRecord
    \/ LambdaEnd

SpecLambda == InitLambda /\ [][NextLambda]_vars

----------------------------------------------------------------------------
(* lambda_s3_event.py: a nightly build arrives.  The archives and the
   metadata file are uploaded in any order, each upload is notified, and the
   notifications are handled in any order.  `lam` holds the bucket. *)

(* An object of the bucket: `build` is what utils.is_build_url says of it,
   `platform` the platform its name holds between dots *)
Object(key, folder, kind, platform, build) ==
    [key |-> key, folder |-> folder, kind |-> kind, platform |-> platform,
     build |-> build, size |-> 7, last_modified |-> 3]

EnArchive ==
    Object("firefox-57.0a1.en-US.linux.tar.bz2", "day", "archive", "linux", TRUE)
FrArchive ==
    Object("firefox-57.0a1.fr.linux.tar.bz2", "l10n", "archive", "linux", TRUE)
NightlyJson ==
    Object("firefox-57.0a1.en-US.linux.json", "day", "nightly_metadata", "linux", FALSE)
Checksums ==
    Object("firefox-57.0a1.en-US.linux.checksums", "day", "other", "linux", FALSE)
MacArchive ==
    Object("firefox-57.0a1.en-US.mac.dmg", "day", "archive", "mac", TRUE)

(* The objects of the two folders in the order a listing gives them *)
NightlyObjects == <<Checksums, EnArchive, NightlyJson, MacArchive, FrArchive>>

(* The objects whose upload and notification are followed *)
Arriving == {EnArchive, FrArchive, NightlyJson}

(* What the metadata file holds *)
NightlyJsonContent == [buildid |-> "20170808", moz_pkg_platform |-> "linux"]

(* fetch_listing of a folder: its objects that are in the bucket *)
ListFolder(bucket, folder) ==
    SelectSeq(NightlyObjects, LAMBDA o : o \in bucket /\ o.folder = folder)

(* inventory_to_records.fetch_metadata for a nightly archive: the metadata
   file of the en-US archive of its platform, None when it is not there *)
fetch_metadata(bucket, record) ==
    IF \E o \in bucket : o.kind = "nightly_metadata" /\ o.platform = record.platform
    THEN NightlyJsonContent ELSE NoMetadata

(* Faulty variant: a metadata notification looks for no archive *)
nightly_archives_none(platform, files, l10n_files) == <<>>

(* main, l.214-255: the archives a nightly metadata notification makes
   records of: the first build of the platform in the folder of the metadata
   file, and every build of the platform in the -l10n folder *)
nightly_archives(platform, files, l10n_files) ==
    LET ofplatform(fs) == SelectSeq(fs, LAMBDA f : f.platform = platform /\ f.build)
        en == ofplatform(files)
        names(fs) == [i \in 1..Len(fs) |-> fs[i].key]
    IN  names(IF en = <<>> THEN <<>> ELSE <<Head(en)>>) \o names(ofplatform(l10n_files))

(* The record of the event for an object, with the answers the bucket gives
   when the notification is handled *)
NotificationOf(bucket, o) ==
    IF o.kind = "archive"
    THEN Notification("archive", "firefox", o.key, fetch_metadata(bucket, o), <<>>)
    ELSE Notification("nightly_metadata", "firefox", o.key, NightlyJsonContent,
                      nightly_archives(NightlyJsonContent.moz_pkg_platform,
                                       ListFolder(bucket, "day"),
                                       ListFolder(bucket, "l10n")))

NightlyStart ==
    /\ lam = NotCalled
    /\ \E there \in SUBSET {Checksums, MacArchive} :
          lam' = [called |-> TRUE, pc |-> "s3", bucket |-> there,
                  notified |-> {}, handled |-> {}, failed |-> {}]
    /\ UNCHANGED <<Programs, store, call, runs>>

Arrival == lam # NotCalled /\ lam.pc = "s3"

(* An object is uploaded and S3 sends its notification *)
NightlyUpload ==
    /\ Arrival
    /\ \E o \in Arriving \ lam.bucket :
          lam' = [lam EXCEPT !.bucket = @ \cup {o}, !.notified = @ \cup {o}]
    /\ UNCHANGED <<Programs, store, call, runs>>

(* lambda_handler is called with a notification: main creates the records,
   or a fetch raises and main is over *)
NightlyNotification ==
    /\ Arrival
    /\ \E o \in lam.notified, raised \in BOOLEAN :
          IF raised
          THEN /\ lam' = [lam EXCEPT !.notified = @ \ {o}, !.failed = @ \cup {o}]
               /\ UNCHANGED store
          ELSE /\ store' = CreateAll(store, records_to_create(NotificationOf(lam.bucket, o)))
               /\ lam' = [lam EXCEPT !.notified = @ \ {o}, !.handled = @ \cup {o}]
    /\ UNCHANGED <<Programs, call, runs>>

NextNightly ==
    \/ NightlyStart
    \/ NightlyUpload
    \/ NightlyNotification

SpecNightly == InitLambda /\ [][NextNightly]_vars

----------------------------------------------------------------------------
(* The functions of the crawl, called on their own *)

InitCall ==
    /\ AtRest("scrape_archives")
    /\ store = {}
    /\ lam = NotCalled
    /\ call = NotCalled
    /\ runs = NotCalled

(* The elements of seq at the positions of the set `at`, in order *)
Pick(seq, at) ==
    LET positions == SelectSeq([i \in 1..Len(seq) |-> i], LAMBDA i : i \in at)
    IN  [j \in 1..Len(positions) |-> seq[positions[j]]]

(* The folders a listing of <product>/releases/ can hold: for each release
   number the beta "N.0b1/" and the final "N.0/", then "49.0-funnelcake/"
   and "latest/" *)
FolderOf(version) ==
    [name |-> version, digit |-> TRUE, funnelcake |-> FALSE, version |-> version]

ReleasesFolders ==
    [i \in 1..(2 * TreeVersions) |->
        FolderOf(Version(48 + ((i + 1) \div 2), i % 2))]
    \o << [name |-> [word |-> "funnelcake"], digit |-> TRUE, funnelcake |-> TRUE,
           version |-> Version(49, 0)],
          [name |-> [word |-> "latest"], digit |-> FALSE, funnelcake |-> FALSE,
           version |-> EmptyString] >>

(* fetch_versions up to its gather, for a listing and a latest_version *)
FetchVersions ==
    /\ call = NotCalled
    /\ \E at \in SUBSET (1..Len(ReleasesFolders)) :
          \E latest_version \in
                {EmptyString} \cup {ReleasesFolders[i].version :
                                       i \in 1..(2 * TreeVersions)} :
             LET versions_folders == Pick(ReleasesFolders, at)
             IN  call' = [called |-> TRUE, fn |-> "fetch_versions",
                          versions_folders |-> versions_folders,
                          latest_version |-> latest_version,
                          versions |-> VersionsOf(versions_folders, latest_version)]
    /\ UNCHANGED <<Programs, store, lam, runs>>

SpecVersions == InitCall /\ [][FetchVersions]_vars

----------------------------------------------------------------------------
(* fetch_json and fetch_listing.  asyncio.gather runs a fetch_listing for
   each url at the same time. *)

MaxUrls == 2   \* urls fetched at the same time

NB_RETRY_REQUEST == 3

(* How an attempt of fetch_json ends: the JSON of a listing, a JSON without
   "prefixes" or "files", a body that is not JSON, an error of the client,
   or the timeout of async_timeout *)
Attempts == {"listing", "other_json", "not_json", "client_error", "timeout"}

(* The exception an attempt raises in fetch_json *)
Raises(attempt) ==
    CASE attempt = "timeout" -> "asyncio.TimeoutError"
      [] attempt = "client_error" -> "aiohttp.ClientError"
      [] attempt = "not_json" -> "ValueError"
      [] OTHER -> None

(* Faulty variant: every exception is retried *)
RetriesAnyError(exception, tries) ==
    exception # None /\ tries < NB_RETRY_REQUEST

(* backoff.on_exception(backoff.expo, asyncio.TimeoutError, max_tries): is
   fetch_json called again after `tries` attempts? *)
Retries(exception, tries) ==
    exception = "asyncio.TimeoutError" /\ tries < NB_RETRY_REQUEST

(* fetch_listing: what it raises, None when it returns the listing, after
   fetch_json gave the JSON of `attempt` or raised `exception` *)
fetch_listing(attempt, exception) ==
    LET raised == IF exception # None THEN exception
                  ELSE IF attempt = "other_json" THEN "KeyError" ELSE None
    IN  IF raised \in {"aiohttp.ClientError", "KeyError", "ValueError"}
        THEN "ValueError: Could not fetch"
        ELSE raised

(* A call of fetch_listing: the attempts of fetch_json that have ended, and
   where it is *)
Fetching == [pc |-> "attempt", attempts |-> <<>>, json |-> None, raised |-> None]

(* gather: fetch_listing is called for each url *)
FetchListingCall ==
    /\ call = NotCalled
    /\ call' = [called |-> TRUE, fn |-> "fetch_listing",
                of |-> [url \in 1..MaxUrls |-> Fetching]]
    /\ UNCHANGED <<Programs, store, lam, runs>>

(* An attempt of fetch_json ends: it is retried, or fetch_json is over and
   fetch_listing returns or raises *)
FetchAttempt ==
    /\ call # NotCalled
    /\ call.fn = "fetch_listing"
    /\ \E url \in DOMAIN call.of, attempt \in Attempts :
          LET c == call.of[url]
              attempts == Append(c.attempts, attempt)
              exception == Raises(attempt)
              raised == fetch_listing(attempt, exception)
          IN  /\ c.pc = "attempt"
              /\ call' = [call EXCEPT !.of[url] =
                     IF Retries(exception, Len(attempts))
                     THEN [c EXCEPT !.attempts = attempts]
                     ELSE [pc |-> IF raised = None THEN "returned" ELSE "raised",
                           attempts |-> attempts,
                           json |-> IF exception = None THEN attempt ELSE exception,
                           raised |-> raised]]
    /\ UNCHANGED <<Programs, store, lam, runs>>

NextFetch ==
    \/ FetchListingCall
    \/ FetchAttempt

SpecFetch == InitCall /\ [][NextFetch]_vars

----------------------------------------------------------------------------
(* fetch_release_metadata: the build folder it reads.  A string is the
   sequence of its code points. *)

MaxBuild == 10   \* highest build number of a candidates folder

RECURSIVE Decimal(_)
Decimal(n) ==
    IF n < 10 THEN <<48 + n>> ELSE Append(Decimal(n \div 10), 48 + (n % 10))

(* "build<n>/" *)
BuildFolder(n) == <<98, 117, 105, 108, 100>> \o Decimal(n) \o <<47>>

(* str < str *)
RECURSIVE Below(_, _)
Below(a, b) ==
    IF a = <<>> THEN b # <<>>
    ELSE IF b = <<>> THEN FALSE
    ELSE IF Head(a) = Head(b) THEN Below(Tail(a), Tail(b))
    ELSE Head(a) < Head(b)

(* sorted(build_folders)[-1] *)
LastSorted(build_folders) ==
    CHOOSE f \in build_folders : \A g \in build_folders : g = f \/ Below(g, f)

(* The number in the name of a build folder *)
BuildNumber(folder) ==
    LET digits == SubSeq(folder, 6, Len(folder) - 1)
        N[i \in 0..Len(digits)] ==
            IF i = 0 THEN 0 ELSE 10 * N[i - 1] + (digits[i] - 48)
    IN  N[Len(digits)]

(* fetch_release_metadata for an en-US file, up to the listing of the build
   folder it chose; without a build folder it returns None *)
FetchReleaseMetadata ==
    /\ call = NotCalled
    /\ \E builds \in SUBSET (1..MaxBuild) :
          LET build_folders == {BuildFolder(n) : n \in builds}
          IN  call' = [called |-> TRUE, fn |-> "fetch_release_metadata",
                       build_folders |-> build_folders,
                       latest_build_folder |->
                           IF build_folders = {} THEN None
                           ELSE LastSorted(build_folders)]
    /\ UNCHANGED <<Programs, store, lam, runs>>

SpecReleaseMetadata == InitCall /\ [][FetchReleaseMetadata]_vars

----------------------------------------------------------------------------
(* to_kinto.py: fetch_existing, statement by statement, on the files of the
   working directory.  The process can stop between any two steps.  `call`
   holds the position in fetch_existing, the files, and the buffer of the
   file object that json.dump writes to. *)

Path(name, suffix) == [name |-> name, suffix |-> suffix]

PREVIOUS_DUMP_FILENAME == Path(".previous_run.json", "")

(* Faulty variant: the records are written to the snapshot path itself *)
tmpfilename_in_place(path) == path

(* cache_file + ".tmp" *)
tmpfilename(path) == [path EXCEPT !.suffix = ".tmp"]

Paths == {PREVIOUS_DUMP_FILENAME, tmpfilename(PREVIOUS_DUMP_FILENAME)}

(* The content of a path: the chunks of text the file holds *)
Absent == [exists |-> FALSE, text |-> <<>>]
Content(text) == [exists |-> TRUE, text |-> text]

(* json.dump(records, fp): the chunks it writes, one fp.write each *)
JsonDump(records) ==
    <<[tok |-> "["]>> \o [i \in 1..Len(records) |-> [tok |-> "item", item |-> records[i]]]
                      \o <<[tok |-> "]"]>>

(* json.load succeeds on the text *)
Complete(text) ==
    /\ Len(text) >= 2
    /\ text[1].tok = "["
    /\ text[Len(text)].tok = "]"
    /\ \A i \in 2..(Len(text) - 1) : text[i].tok = "item"

Corrupt == [exists |-> TRUE, corrupt |-> TRUE]

(* What a later run finds at a path: no file, the records json.load gives,
   or a file json.load fails on *)
Loaded(content) ==
    IF ~content.exists THEN NoFile
    ELSE IF Complete(content.text)
    THEN File([i \in 1..(Len(content.text) - 2) |-> content.text[i + 1].item])
    ELSE Corrupt

RB3 == [id |-> "b", title |-> "t1", last_modified |-> 3, schema |-> 1]

(* What get_records can return to fetch_existing *)
SnapshotServers == {<<>>, <<RA2>>, <<RA2, RB3>>}

(* What an earlier run that stopped can have left at the .tmp path *)
StaleTmp == {Absent, Content(<<[tok |-> "["]>>)}

InitSnapshot ==
    /\ AtRest("to_kinto")
    /\ store = {}
    /\ lam = NotCalled
    /\ call = NotCalled
    /\ runs = NotCalled

(* l.47-58: the previous snapshot is read and merged with the new records *)
SnapshotCall ==
    /\ call = NotCalled
    /\ \E previous \in {NoFile, File(<<RA1>>)}, stale \in StaleTmp,
          server \in SnapshotServers :
          LET got == fetch_existing(previous, server)
              tmp == tmpfilename(PREVIOUS_DUMP_FILENAME)
          IN  call' = [called |-> TRUE, fn |-> "fetch_existing",
                       previous |-> previous, server |-> server,
                       records |-> got.records,
                       pc |-> IF Len(got.records) > 0 THEN "open" ELSE "returned",
                       files |-> [q \in Paths |->
                                    IF q = PREVIOUS_DUMP_FILENAME
                                    THEN IF previous.exists
                                         THEN Content(JsonDump(previous.records))
                                         ELSE Absent
                                    ELSE stale],
                       buffer |-> <<>>, written |-> 0]
    /\ UNCHANGED <<Programs, store, lam, runs>>

Snapshotting == call.called /\ call.fn = "fetch_existing"

(* l.63: open(tmpfilename, "w") creates or truncates the file *)
SnapshotOpen ==
    /\ Snapshotting
    /\ call.pc = "open"
    /\ call' = [call EXCEPT !.pc = "dump",
                            !.files[tmpfilename(PREVIOUS_DUMP_FILENAME)] = Content(<<>>)]
    /\ UNCHANGED <<Programs, store, lam, runs>>

(* l.63: json.dump writes one chunk to the file object *)
SnapshotWrite ==
    /\ Snapshotting
    /\ call.pc = "dump"
    /\ LET chunks == JsonDump(call.records)
       IN  /\ call.written < Len(chunks)
           /\ call' = [call EXCEPT !.buffer = Append(@, chunks[call.written + 1]),
                                   !.written = @ + 1]
    /\ UNCHANGED <<Programs, store, lam, runs>>

(* The file, the buffer of the file object written to it *)
Flushed(c) ==
    [c.files EXCEPT ![tmpfilename(PREVIOUS_DUMP_FILENAME)] =
                        Content(@.text \o c.buffer)]

(* The file object writes its buffer out when it sees fit *)
SnapshotFlush ==
    /\ Snapshotting
    /\ call.pc = "dump"
    /\ call.buffer # <<>>
    /\ call' = [call EXCEPT !.files = Flushed(call), !.buffer = <<>>]
    /\ UNCHANGED <<Programs, store, lam, runs>>

(* l.63: json.dump returns; the file object has no reference left and is
   closed, which writes its buffer out *)
SnapshotClose ==
    /\ Snapshotting
    /\ call.pc = "dump"
    /\ call.written = Len(JsonDump(call.records))
    /\ call' = [call EXCEPT !.files = Flushed(call), !.buffer = <<>>,
                            !.pc = "rename"]
    /\ UNCHANGED <<Programs, store, lam, runs>>

(* l.64: os.rename(tmpfilename, cache_file) *)
SnapshotRename ==
    /\ Snapshotting
    /\ call.pc = "rename"
    /\ LET tmp == tmpfilename(PREVIOUS_DUMP_FILENAME)
       IN  call' = [call EXCEPT
                      !.pc = "returned",
                      !.files = IF tmp = PREVIOUS_DUMP_FILENAME THEN @
                                ELSE [q \in Paths |->
                                        IF q = tmp THEN Absent ELSE call.files[tmp]]]
    /\ UNCHANGED <<Programs, store, lam, runs>>

(* The process stops: what the file object had not written out is lost *)
SnapshotStop ==
    /\ Snapshotting
    /\ call.pc \in {"open", "dump", "rename"}
    /\ call' = [call EXCEPT !.pc = "stopped", !.buffer = <<>>]
    /\ UNCHANGED <<Programs, store, lam, runs>>

NextSnapshot ==
    \/ SnapshotCall
    \/ SnapshotOpen
    \/ SnapshotWrite
    \/ SnapshotFlush
    \/ SnapshotClose
    \/ SnapshotRename
    \/ SnapshotStop

SpecSnapshot == InitSnapshot /\ [][NextSnapshot]_vars

----------------------------------------------------------------------------
(* scrape_archives.py: the records of one listing, in fetch_nightlies and in
   fetch_files, next to the other branches of the crawl.  `call` holds the
   coroutine; the queue is the queue of the crawl. *)

MaxFiles == 3    \* files of the listing
MaxOthers == 1   \* records the other branches put meanwhile

(* The listings: file i is the i-th listed; `match` tells whether the filters
   of the function keep it *)
Listings ==
    UNION {{[i \in 1..n |-> [name |-> i, match |-> flags[i]]] :
               flags \in [1..n -> BOOLEAN]} : n \in 1..MaxFiles}

(* The first file from k on that yields a record; Len(files) + 1 if none *)
NextKept(files, k) ==
    LET kept == {j \in k..Len(files) : files[j].match}
    IN  IF kept = {} THEN Len(files) + 1
        ELSE CHOOSE j \in kept : \A l \in kept : j <= l

(* The tasks of asyncio.gather that can run next.  gather makes a task of
   each coroutine it is given and the loop runs the tasks in the order they
   were made; gather of Python 3.6 and before makes them in the order of
   set(coros_or_futures), later versions in the order of the arguments.  The
   code runs on either (it uses f-strings, and the loop= arguments that later
   versions dropped), so any task made and not run can be the next. *)
GatherNext(pending) == pending

(* The coroutine after file k - 1: suspended in the metadata fetch of the
   next file kept, or past the loop *)
Listed(c, k, recs) ==
    LET next == NextKept(c.files, k)
    IN  [c EXCEPT !.k = next,
                  !.recs = recs,
                  !.pending = IF next > Len(c.files) /\ c.fn = "fetch_files"
                              THEN 1..Len(recs) ELSE {},
                  !.pc = IF next <= Len(c.files) THEN "metadata"
                         ELSE IF c.fn = "fetch_files" /\ recs # <<>> THEN "puts"
                         ELSE "done"]

(* fetch_nightlies (one day listing) or fetch_files is resumed from its
   listing *)
OrderCall ==
    /\ call = NotCalled
    /\ \E fn \in {"fetch_nightlies", "fetch_files"}, files \in Listings :
          call' = Listed([called |-> TRUE, fn |-> fn, files |-> files, k |-> 0,
                          recs |-> <<>>, pending |-> {}, pc |-> "listing",
                          others |-> 0], 1, <<>>)
    /\ UNCHANGED <<Programs, store, lam, runs>>

Ordering == call.called /\ call.fn \in {"fetch_nightlies", "fetch_files"}

(* The metadata fetch of file k returns: fetch_nightlies puts the record
   (l.211-214), fetch_files keeps the put for its gather (l.286-290) *)
OrderFile ==
    /\ Ordering
    /\ call.pc = "metadata"
    /\ LET record == [file |-> call.files[call.k].name]
       IN  IF call.fn = "fetch_nightlies"
           THEN /\ Put(record)
                /\ call' = Listed(call, call.k + 1, <<>>)
           ELSE /\ call' = Listed(call, call.k + 1, Append(call.recs, record))
                /\ UNCHANGED <<queue, nput, unfinished>>
    /\ UNCHANGED <<prog, mpc, error, stdin, cache_file, existing, cpc, batch,
                   batch_max, tasks, skipped, logged, crawl, pub, store, lam, runs>>

(* fetch_files, l.292: one of the queue.put tasks of the gather runs *)
OrderPut ==
    /\ Ordering
    /\ call.pc = "puts"
    /\ \E i \in GatherNext(call.pending) :
          /\ Put(call.recs[i])
          /\ call' = [call EXCEPT !.pending = @ \ {i},
                                  !.pc = IF call.pending = {i} THEN "done" ELSE @]
    /\ UNCHANGED <<prog, mpc, error, stdin, cache_file, existing, cpc, batch,
                   batch_max, tasks, skipped, logged, crawl, pub, store, lam, runs>>

(* Another branch of the crawl puts a record *)
OrderOther ==
    /\ Ordering
    /\ call.pc # "done"
    /\ call.others < MaxOthers
    /\ Put([other |-> call.others + 1])
    /\ call' = [call EXCEPT !.others = @ + 1]
    /\ UNCHANGED <<prog, mpc, error, stdin, cache_file, existing, cpc, batch,
                   batch_max, tasks, skipped, logged, crawl, pub, store, lam, runs>>

NextOrder ==
    \/ OrderCall
    \/ OrderFile
    \/ OrderPut
    \/ OrderOther

SpecOrder == InitCall /\ [][NextOrder]_vars

----------------------------------------------------------------------------
(* What has become of the queue items *)

(* The places (task, position) where item number n is in a submitted batch *)
Submitted(n) ==
    UNION {{<<i, j>> : j \in {k \in 1..Len(tasks[i].batch) : tasks[i].batch[k].n = n}} :
              i \in 1..Len(tasks)}

(* The numbers of the records put on the queue: every item but the marker *)
RecordsPut ==
    {n \in 1..nput : ~(prog = "to_kinto" /\ mpc \in {"join", "end"} /\ n = nput)}

(* Every future of the pool has completed and its callback has run *)
PoolIdle == \A i \in 1..Len(tasks) : tasks[i].st = "called"

(* The producer has returned *)
ProducerFinished ==
    /\ mpc \in {"join", "end"}
    /\ \A id \in Called : Pc(id) = "done"

(* C1: consumer.cancel() is called only in a state where the producer has
   finished, the queue is empty, consume() holds no buffered record, no batch
   is waiting for or running on the pool, and every record put has been
   skipped as a duplicate or submitted in a batch. *)
C1_CancelOnlyWhenDrained ==
    [][(mpc = "join" /\ mpc' = "end") =>
          /\ ProducerFinished
          /\ queue = <<>>
          /\ batch = <<>>
          /\ PoolIdle
          /\ \A n \in RecordsPut : n \in skipped \/ Submitted(n) # {}]_vars

C1_Witness ==
    /\ mpc = "end"
    /\ cpc = "cancelled"
    /\ Len(tasks) >= 2
    /\ nput >= 2

(* C2: a record put on the queue is in at most one submitted batch, and at
   most once in it; when the run ends normally every record was either
   dropped by the deduplication or submitted in exactly one batch. *)
C2_EachRecordOnce ==
    /\ \A n \in 1..nput : Cardinality(Submitted(n)) <= 1
    /\ \A n \in 1..nput : ~(n \in skipped /\ Submitted(n) # {})
    /\ mpc = "end" =>
          \A n \in RecordsPut : n \in skipped \/ Cardinality(Submitted(n)) = 1

C2_Witness ==
    /\ mpc = "end"
    /\ \E n \in RecordsPut : n \in skipped
    /\ \E n \in RecordsPut : Cardinality(Submitted(n)) = 1

(* C3: every batch handed to publish_records holds at least one record and
   at most batch_max_requests records. *)
C3_BatchSize ==
    \A i \in 1..Len(tasks) :
        /\ Len(tasks[i].batch) >= 1
        /\ Len(tasks[i].batch) <= batch_max
        /\ tasks[i].n = Len(tasks[i].batch)

C3_Witness ==
    /\ batch_max = 2
    /\ \E i \in 1..Len(tasks) : Len(tasks[i].batch) = 2
    /\ \E i \in 1..Len(tasks) : Len(tasks[i].batch) = 1

(* C4: with no record deduplicated and no timer expiry, N records followed
   by the completion marker and a batch maximum B give ceil(N/B) batches
   that partition the records in queue order, each of B records but the
   last, which holds the rest (B = 25, N = 60: 25, 25 and 10). *)
C4_BatchesPartition ==
    mpc = "end" =>
        LET N == Len(stdin)
            B == batch_max
            count == (N + B - 1) \div B
        IN  /\ Len(tasks) = count
            /\ \A i \in 1..Len(tasks) :
                  /\ Len(tasks[i].batch) = IF i < count THEN B ELSE N - (count - 1) * B
                  /\ \A j \in 1..Len(tasks[i].batch) :
                        tasks[i].batch[j].n = (i - 1) * B + j

C4_Witness ==
    /\ mpc = "end"
    /\ Len(stdin) = 60
    /\ batch_max = 25
    /\ [i \in 1..Len(tasks) |-> Len(tasks[i].batch)] = <<25, 25, 10>>

(* A line whose record is in the snapshot with the same value of every field
   but last_modified and schema *)
Unchanged(line) ==
    /\ "data" \in DOMAIN line
    /\ \E i \in 1..Len(existing) :
          /\ existing[i].id = Get(line.data, "id")
          /\ \A k \in ((DOMAIN line.data) \cup (DOMAIN existing[i]))
                          \ {"last_modified", "schema"} :
                /\ k \in DOMAIN line.data
                /\ k \in DOMAIN existing[i]
                /\ line.data[k] = existing[i][k]

(* C5: when every record read is in the previous-run snapshot and equal to
   its entry but for last_modified and schema, consume submits no batch and
   acknowledges every item it takes from the queue, so queue.join() returns
   once the queue is empty. *)
C5_UnchangedRunWritesNothing ==
    (\A i \in 1..Len(stdin) : Unchanged(stdin[i])) =>
        /\ tasks = <<>>
        /\ batch = <<>>
        /\ unfinished = Len(queue)
        /\ skipped = {n \in 1..nput : n <= Len(stdin)} \ {queue[i].n : i \in 1..Len(queue)}

C5_Witness ==
    /\ mpc = "end"
    /\ Len(stdin) = 2
    /\ \A i \in 1..Len(stdin) : Unchanged(stdin[i])
    /\ tasks = <<>>

(* C6: when operations of a batch report an error, publish_records has
   submitted every operation of the batch, the ones without an error code
   being applied, and raises one ValueError whose messages name each failing
   operation once and no other. *)
C6_PartialErrorsAggregated ==
    (pub.called /\ pub.response.reachable
        /\ \E i \in 1..Len(pub.records) : pub.response.codes[i] # 0) =>
        LET failing == {i \in 1..Len(pub.records) : pub.response.codes[i] # 0}
            msgs == pub.out.error_msgs
        IN  /\ Len(pub.out.ops) = Len(pub.records)
            /\ pub.out.raised = "ValueError"
            /\ {msgs[j].op : j \in 1..Len(msgs)} = failing
            /\ Len(msgs) = Cardinality(failing)
            /\ \A j \in 1..Len(msgs) :
                  msgs[j].msg = IF pub.response.codes[msgs[j].op] = 412
                                THEN "already exists"
                                ELSE IF pub.response.codes[msgs[j].op] = 400
                                THEN "Invalid record" ELSE "Error"

C6_Witness ==
    /\ pub.called
    /\ Len(pub.records) = 3
    /\ pub.response.reachable
    /\ pub.response.codes = <<0, 412, 0>>
    /\ pub.out.raised = "ValueError"
    /\ Len(pub.out.error_msgs) = 1

(* The futures whose publish_records raised because the whole batch failed *)
FailedBatches ==
    {i \in 1..Len(tasks) : tasks[i].raised = "KintoException"}

(* C7: when the submission of a whole batch fails, task_done is not called
   for the items of that batch: they stay counted in the unfinished tasks of
   the queue. *)
C7_FailedBatchStaysUnacknowledged ==
    \A i \in FailedBatches : unfinished >= tasks[i].n

(* C8: when publish_records raises for a batch, main ends with that error
   instead of completing as a successful run. *)
C8_BatchFailureEndsMain ==
    (mpc = "end" /\ FailedBatches # {}) => error # None

(* The coroutines of the crawl that raised themselves: failed, and not
   because a child failed *)
FailedFirst == {id \in Called \ {Top} : Pc(id) = "failed" /\ ~GatherRaised(id)}

(* C9: when the only fetches that fail are listings inside the sub-tree of a
   version or of a platform, the run is not aborted: once the loop has
   stopped, main has ended without an error, every coroutine of the crawl
   that was started has run to its end and every record put has been
   published. *)
C9_SiblingsCrawledToTheEnd ==
    (/\ prog = "scrape_archives"
     /\ ~LoopRunning
     /\ FailedFirst # {}
     /\ \A id \in FailedFirst : id[1] \in {"platforms", "locales"}) =>
        /\ error = None
        /\ \A id \in Called \ {Top} : Pc(id) \in {"done", "failed"}
        /\ unfinished = 0

(* C10: a coroutine of the crawl completes, normally or with an error, only
   after every coroutine it started has completed. *)
C10_ParentCompletesAfterChildren ==
    \A id \in Called :
        Pc(id) \in {"done", "failed"} =>
            \A c \in Kids(id) : Pc(c) \in {"done", "failed"}

(* C11: when a run is over after it left files of the tree unpublished (a
   listing could not be fetched), a later run in which every fetch succeeds
   leaves no file of the tree unpublished: latest_version does not exclude
   a file that was not published before. *)
C11_LaterRunPublishesTheRest ==
    (runs # NotCalled /\ runs.n >= 2 /\ runs.pc = "over") =>
        \A a \in Tree : Published(a)

(* C12: in the nightly traversal no record is put on the queue for a file of
   a day folder whose en-US metadata file is missing: a nightly record of an
   en-US file on the queue was built with its metadata. *)
C12_NoNightlyRecordWithoutMetadata ==
    \A i \in 1..Len(queue) :
        (/\ prog = "scrape_archives"
         /\ queue[i].rec.target.channel = "nightly"
         /\ queue[i].rec.target.locale = "en-US") =>
            queue[i].rec.build # None

(* C13: when there is no metadata for the archive of a notification, main
   creates no record for it and raises no error for it, and it goes on to
   the records of the event that follow. *)
C13_NoMetadataNoRecord ==
    lam # NotCalled =>
        \A i \in 1..Len(lam.log) :
            LET n == lam.log[i].n
            IN  (/\ n.kind = "archive"
                 /\ n.product \in ALL_PRODUCTS
                 /\ n.metadata = NoMetadata
                 /\ ~lam.log[i].raised) =>
                    /\ lam.log[i].created = <<>>
                    /\ record_from_url(n.key).id \notin Ids(store)
                    /\ (i = Len(lam.log) => lam.pc # "failed" /\ lam.k = i + 1)

C13_Witness ==
    /\ lam # NotCalled
    /\ lam.pc = "end"
    /\ lam.event = <<ArchiveNotReady, ArchiveReady>>
    /\ Len(lam.log) = 2
    /\ lam.log[1].created = <<>>
    /\ Ids(store) = {record_from_url(ArchiveReady.key).id}

(* C14: when a delivery of an event has run to its end, a later delivery of
   the same event leaves the collection as it was. *)
C14_RedeliveryChangesNothing ==
    lam # NotCalled =>
        \A i \in 1..Len(lam.seen) : \A j \in i..Len(lam.seen) :
            (lam.seen[i].ok /\ lam.seen[j].ok) =>
                lam.seen[j].store = lam.seen[i].store

C14_Witness ==
    /\ lam # NotCalled
    /\ lam.pc = "end"
    /\ lam.delivery = 2
    /\ Len(lam.seen) = 2
    /\ lam.seen[1].ok
    /\ Cardinality(lam.seen[1].store) = 3
    /\ store = lam.seen[1].store

(* C15: two records of the collection built for the same product, version,
   platform, locale and build id have the same id: publishing the record of
   an artifact again does not make a second record. *)
C15_SameArtifactSameId ==
    \A r, q \in store :
        (/\ r.data.source.product = q.data.source.product
         /\ r.data.target.version = q.data.target.version
         /\ r.data.target.platform = q.data.target.platform
         /\ r.data.target.locale = q.data.target.locale
         /\ r.data.build = q.data.build) => r.id = q.id

(* C16: fetch_versions starts a sub-crawl for a folder of the listing only
   if its version parses strictly greater than latest_version, and then for
   each such folder that starts with a digit and is not a funnelcake; for a
   version equal to or lower than latest_version nothing is crawled. *)
C16_OnlyNewerVersions ==
    (call # NotCalled /\ call.fn = "fetch_versions") =>
        \A folder \in Range(call.versions_folders) :
            folder \in Range(call.versions) <=>
                /\ folder.digit
                /\ ~folder.funnelcake
                /\ version_parse(folder.version) > version_parse(call.latest_version)

C16_Witness ==
    /\ call # NotCalled
    /\ call.fn = "fetch_versions"
    /\ call.latest_version = Version(50, 0)
    /\ {FolderOf(Version(49, 0)), FolderOf(Version(50, 0)),
        FolderOf(Version(50, 1))} \subseteq Range(call.versions_folders)
    /\ call.versions = <<>>

(* C17: fetch_listing fails with the one fetch error, the ValueError "Could
   not fetch", in each of its failure cases (a JSON without the expected
   keys, a body that is not JSON, a timeout of every attempt): no other
   exception leaves it. *)
C17_OnlyTheFetchError ==
    (call # NotCalled /\ call.fn = "fetch_listing") =>
        \A url \in DOMAIN call.of :
            call.of[url].pc = "raised" =>
                call.of[url].raised = "ValueError: Could not fetch"

(* C18: fetch_json makes at most NB_RETRY_REQUEST attempts for a url, each
   attempt but the first after an attempt that timed out, and when the last
   attempt allowed times out it raises the timeout to its caller. *)
C18_AtMostThreeAttempts ==
    (call # NotCalled /\ call.fn = "fetch_listing") =>
        \A url \in DOMAIN call.of :
            LET c == call.of[url]
            IN  /\ Len(c.attempts) <= NB_RETRY_REQUEST
                /\ \A i \in 1..(Len(c.attempts) - 1) : c.attempts[i] = "timeout"
                /\ (/\ Len(c.attempts) = NB_RETRY_REQUEST
                    /\ c.attempts[NB_RETRY_REQUEST] = "timeout") =>
                       c.pc = "raised" /\ c.json = "asyncio.TimeoutError"
                /\ (c.pc = "attempt" /\ c.attempts # <<>>) =>
                       c.attempts[Len(c.attempts)] = "timeout"

C18_Witness ==
    /\ call # NotCalled
    /\ call.fn = "fetch_listing"
    /\ call.of[1].attempts = <<"timeout", "timeout", "timeout">>
    /\ call.of[1].pc = "raised"
    /\ call.of[2].attempts = <<"timeout", "listing">>
    /\ call.of[2].pc = "returned"

(* C19: for every set of build folders listed in the candidates folder,
   fetch_release_metadata reads the metadata from the build folder with the
   highest build number. *)
C19_HighestBuildFolder ==
    (/\ call # NotCalled
     /\ call.fn = "fetch_release_metadata"
     /\ call.build_folders # {}) =>
        \A folder \in call.build_folders :
            BuildNumber(folder) <= BuildNumber(call.latest_build_folder)

(* C20: the snapshot file is replaced only at the very end of the run: a step
   that changes the file is the step that ends main, taken when the queue is
   joined and every batch has been flushed. *)
C20_SnapshotReplacedAtTheEnd ==
    [][cache_file' # cache_file =>
          /\ mpc' = "end"
          /\ unfinished = 0
          /\ batch = <<>>]_vars

(* C21: fetch_existing replaces the snapshot file atomically: at every step
   of the write, and when the process stops at any of them, the snapshot
   path holds the complete previous snapshot (or no file, when there was
   none) or the complete new one, never a partial one. *)
C21_SnapshotNeverPartial ==
    Snapshotting =>
        Loaded(call.files[PREVIOUS_DUMP_FILENAME])
            \in {call.previous, fetch_existing(call.previous, call.server).file}

(* The process stopped while the new records were partly written, and the
   new snapshot differs from the previous one *)
C21_Witness ==
    /\ Snapshotting
    /\ call.pc = "stopped"
    /\ call.previous.exists
    /\ fetch_existing(call.previous, call.server).file # call.previous
    /\ Loaded(call.files[tmpfilename(PREVIOUS_DUMP_FILENAME)]) = Corrupt
    /\ Len(call.files[tmpfilename(PREVIOUS_DUMP_FILENAME)].text) >= 2

(* The lines read from stdin that produce rejects *)
InvalidLines == {i \in 1..Len(stdin) : ~ValidLine(stdin[i])}

(* C22: an invalid input line met by produce is dropped and the other
   records are still published: when the to_kinto run is over after an
   invalid line was read, main did not fail, and every valid record read was
   skipped as unchanged or submitted in a batch. *)
C22_InvalidLineIsDropped ==
    (prog = "to_kinto" /\ ~LoopRunning /\ InvalidLines # {}) =>
        /\ mpc = "end"
        /\ \A n \in RecordsPut : n \in skipped \/ Submitted(n) # {}

(* C23: the queue between the producer and the consumer is bounded: the
   number of items waiting in it never exceeds a fixed capacity, put
   suspending the producer while the queue is full.  The capacity is taken
   to be MaxLines, one less than the items the longest input puts (its lines
   and the marker): any capacity is below the input for an input long
   enough. *)
C23_QueueBounded == Len(queue) <= MaxLines

(* C24: for two files of one listing that both yield a record, the record
   of the file listed first is put on the queue before the record of the
   file listed later, in fetch_files and in fetch_nightlies, whatever the
   other branches put in between. *)
C24_ListingOrderKept ==
    Ordering =>
        \A i, j \in 1..Len(queue) :
            (/\ i < j
             /\ "file" \in DOMAIN queue[i].rec
             /\ "file" \in DOMAIN queue[j].rec) => queue[i].rec.file < queue[j].rec.file

(* The same for fetch_nightlies alone *)
NightliesOrderKept == (Ordering /\ call.fn = "fetch_nightlies") => C24_ListingOrderKept

(* C25: for a nightly archive and its metadata file, whichever notification
   is handled first, once both have been handled the record of the archive
   is in the store. *)
C25_BothHandledRecordExists ==
    Arrival =>
        \A a \in {EnArchive, FrArchive} :
            {a, NightlyJson} \subseteq lam.handled =>
                record_from_url(a.key).id \in Ids(store)

(* The archive was handled first and skipped, the metadata came later, and
   the record is there *)
C25_Witness ==
    /\ Arrival
    /\ {EnArchive, NightlyJson} \subseteq lam.handled
    /\ \E r \in store : r.id = record_from_url(EnArchive.key).id
                        /\ r.data.download.size = 1
    /\ MacArchive \in lam.bucket
    /\ record_from_url(MacArchive.key).id \notin Ids(store)

(* The items of the batches submitted whose done callback has not run *)
RECURSIVE InFlight(_)
InFlight(i) ==
    IF i = 0 THEN 0
    ELSE InFlight(i - 1) + (IF tasks[i].st # "called" THEN tasks[i].n ELSE 0)

(* C26: in both pipelines, in every reachable state, the queue items not yet
   acknowledged (items put minus task_done calls) are the items still in the
   queue, those in the current batch of consume(), and those of the batches
   submitted whose callback has not run; and task_done was not called more
   often than items were taken from the queue. *)
C26_UnacknowledgedAccounted ==
    /\ unfinished = Len(queue) + Len(batch) + InFlight(Len(tasks))
    /\ nput - unfinished <= nput - Len(queue)

(* The same while consume() has not ended with an exception *)
AccountedWhileConsuming == cpc # "crashed" => C26_UnacknowledgedAccounted

(* C27: the to_kinto run terminates: when every line of the finite input
   passes the validation of produce and every batch submitted returns or
   raises, main gets past queue.join() and cancels the consumer. *)
C27_RunTerminates == <>(mpc = "end" \/ InvalidLines # {})

(* The same for the runs in which consume() does not end with an exception *)
TerminatesWhileConsuming == <>(mpc = "end" \/ InvalidLines # {} \/ cpc = "crashed")

====
